---- MODULE Spec2Model ----
(***************************************************************************)
(* parexec: a master goroutine reads a yaml description, builds one        *)
(* execData (an ordered list of execfunc) per "execdata" block, starts     *)
(* runtime.NumCPU() executor goroutines, hands every execData over one     *)
(* unbuffered channel, closes the channel and waits on a sync.WaitGroup.   *)
(***************************************************************************)
EXTENDS Integers, Sequences, FiniteSets, TLC

\* ------------------------------------------------------------------ bounds
MaxWorkers == 2     \* largest runtime.NumCPU() explored
MaxJobs    == 2     \* largest number of execdata blocks in the yaml
MaxDescriptors == 2 \* largest number of descriptors in the whole yaml

\* ------------------------------------------------------- configuration input
\* A yaml command descriptor is a mapping; the key cmd may be absent.
Descriptors ==
    { [name |-> "echoing", cmd |-> "echo", args |-> <<"hi">>],
      [name |-> "nocmd", args |-> <<>>] }

SeqsUpTo(S, n) == UNION { [1..k -> S] : k \in 0..n }

\* number of descriptors in all execdata blocks together
RECURSIVE TotalLen(_)
TotalLen(fns) ==
    IF fns = <<>> THEN 0 ELSE Len(Head(fns)) + TotalLen(Tail(fns))

\* the "functions" key: a list of execdata blocks, each a list of descriptors
FunctionsDocs ==
    { fns \in SeqsUpTo(SeqsUpTo(Descriptors, MaxDescriptors), MaxJobs) :
        TotalLen(fns) <= MaxDescriptors }

\* what the file system and the yaml decoder can present to processConfig
Configs ==
    [readable : BOOLEAN, decodable : BOOLEAN, functions : FunctionsDocs]

\* yaml.Unmarshal into functionMeta: an absent key leaves the zero value
functionMeta(d) ==
    [Name |-> IF "name" \in DOMAIN d THEN d.name ELSE "",
     Cmd  |-> IF "cmd"  \in DOMAIN d THEN d.cmd  ELSE "",
     Args |-> IF "args" \in DOMAIN d THEN d.args ELSE <<>>]

\* &cli{f.Name, f.Args}: the display name taken for the program
cliFromName(f) == [command |-> f.Name, args |-> f.Args]

\* &cli{f.Cmd, f.Args}: the display name is dropped
cli(f) == [command |-> f.Cmd, args |-> f.Args]

\* buildFunc: the closure is represented by the cli it captures
buildFunc(clargs) == clargs

\* processConfig with each block's functions prepended instead of appended
processConfigPrepend(fns) ==
    [r \in 1..Len(fns) |->
        [fs |-> [k \in 1..Len(fns[r]) |->
                    buildFunc(cli(functionMeta(
                        fns[r][Len(fns[r]) + 1 - k])))]]]

\* the two nested loops of processConfig: one execData per block, one
\* execfunc per descriptor, appended in declared order
processConfig(fns) ==
    [r \in 1..Len(fns) |->
        [fs |-> [k \in 1..Len(fns[r]) |->
                    buildFunc(cli(functionMeta(fns[r][k])))]]]

\* cmd.Run(): an empty program name can never be spawned; any other
\* program may exit zero or non-zero
RunOutcomes(clargs) ==
    IF clargs.command = "" THEN {"err"} ELSE {"ok", "err"}

\* ------------------------------------------------------------------- state
VARIABLES
    cfg,        \* the configuration presented to this run
    workers,    \* runtime.NumCPU()
    mpc,        \* position of main
    eds,        \* []*execData returned by processConfig
    wg,         \* sync.WaitGroup counter
    next,       \* index of the execData main is sending (range eds)
    closed,     \* close(edCh) has happened
    wpc,        \* position of each executor goroutine, in spawn order
    edata,      \* execData each executor holds (index into eds, 0 = none)
    fidx,       \* index of the execfunc each executor is at
    stdout,     \* the lines printed when a function ends (captured output
                \* or error), in the order they were printed
    history,    \* per execData: what its functions printed, in order
    claimed,    \* per execData: the executors that received it, in order
    completed   \* per execData: how many times its fs loop ran to the end

vars == <<cfg, workers, mpc, eds, wg, next, closed, wpc, edata, fidx,
          stdout, history, claimed, completed>>

mainVars == <<mpc, eds, wg, next, closed>>
inputVars == <<cfg, workers>>

Executors == DOMAIN wpc
Jobs == DOMAIN eds

\* the process is alive: log.Fatal has not exited it and main has not returned
Alive == mpc \notin {"fatal", "exit"}

Init ==
    /\ cfg \in Configs
    /\ workers \in 1..MaxWorkers
    /\ mpc = "read"
    /\ eds = <<>>
    /\ wg = 0
    /\ next = 1
    /\ closed = FALSE
    /\ wpc = <<>>
    /\ edata = <<>>
    /\ fidx = <<>>
    /\ stdout = <<>>
    /\ history = <<>>
    /\ claimed = <<>>
    /\ completed = <<>>

\* --------------------------------------------------------------------- main
\* readYaml fails: log.Fatal(err)
ReadFatal ==
    /\ mpc = "read"
    /\ ~cfg.readable
    /\ mpc' = "fatal"
    /\ UNCHANGED <<inputVars, eds, wg, next, closed, wpc, edata, fidx,
                   stdout, history, claimed, completed>>

ReadOk ==
    /\ mpc = "read"
    /\ cfg.readable
    /\ mpc' = "decode"
    /\ UNCHANGED <<inputVars, eds, wg, next, closed, wpc, edata, fidx,
                   stdout, history, claimed, completed>>

\* the decode error logged without exiting: main goes on with what was decoded
DecodeErrorIgnored ==
    /\ mpc = "decode"
    /\ ~cfg.decodable
    /\ eds' = processConfig(cfg.functions)
    /\ history' = [j \in 1..Len(cfg.functions) |-> <<>>]
    /\ claimed' = [j \in 1..Len(cfg.functions) |-> <<>>]
    /\ completed' = [j \in 1..Len(cfg.functions) |-> 0]
    /\ mpc' = "add"
    /\ UNCHANGED <<inputVars, wg, next, closed, wpc, edata, fidx, stdout>>

\* yaml.Unmarshal fails: log.Fatalf
DecodeFatal ==
    /\ mpc = "decode"
    /\ ~cfg.decodable
    /\ mpc' = "fatal"
    /\ UNCHANGED <<inputVars, eds, wg, next, closed, wpc, edata, fidx,
                   stdout, history, claimed, completed>>

\* yaml.Unmarshal succeeds; processConfig returns dataExec
DecodeOk ==
    /\ mpc = "decode"
    /\ cfg.decodable
    /\ eds' = processConfig(cfg.functions)
    /\ history' = [j \in 1..Len(cfg.functions) |-> <<>>]
    /\ claimed' = [j \in 1..Len(cfg.functions) |-> <<>>]
    /\ completed' = [j \in 1..Len(cfg.functions) |-> 0]
    /\ mpc' = "add"
    /\ UNCHANGED <<inputVars, wg, next, closed, wpc, edata, fidx, stdout>>

\* what a function prints: by which executor and for which function of the
\* execData; a line of stdout names the execData too
Event(kind, w) ==
    [ev |-> kind, w |-> w, f |-> fidx[w],
     cmd |-> eds[edata[w]].fs[fidx[w]].command]
Line(kind, w) == [ev |-> kind, job |-> edata[w], f |-> fidx[w]]

\* the counter set one higher than the number of executors
WgAddOneMore ==
    /\ mpc = "add"
    /\ wg' = wg + workers + 1
    /\ mpc' = "spawn"
    /\ UNCHANGED <<inputVars, eds, next, closed, wpc, edata, fidx, stdout,
                   history, claimed, completed>>

\* wg.Add(workers); edCh := make(chan *execData)
WgAdd ==
    /\ mpc = "add"
    /\ wg' = wg + workers
    /\ mpc' = "spawn"
    /\ UNCHANGED <<inputVars, eds, next, closed, wpc, edata, fidx, stdout,
                   history, claimed, completed>>

\* the spawn loop running once too often
SpawnOneMore == Len(wpc) <= workers

\* loop condition of: for i := 0; i < workers; i++
SpawnMore == Len(wpc) < workers

\* go executor(edCh, &wg)
Spawn ==
    /\ mpc = "spawn"
    /\ SpawnMore
    /\ wpc' = Append(wpc, "recv")
    /\ edata' = Append(edata, 0)
    /\ fidx' = Append(fidx, 0)
    /\ UNCHANGED <<inputVars, mainVars, stdout, history, claimed,
                   completed>>

SpawnEnd ==
    /\ mpc = "spawn"
    /\ ~SpawnMore
    /\ mpc' = "send"
    /\ UNCHANGED <<inputVars, eds, wg, next, closed, wpc, edata, fidx,
                   stdout, history, claimed, completed>>

\* the send loop stopping one element early
SendAllButLast == next < Len(eds)

\* range eds has an element left
SendMore == next <= Len(eds)

\* a send that does not wait for the executor to be at its receive
ReceivingOrBusy(w) == wpc[w] \in {"recv", "call", "run"}

\* a receive that is served only while no executor is running a function
ReceivingWhenAllIdle(w) ==
    /\ wpc[w] = "recv"
    /\ \A v \in Executors : wpc[v] \in {"recv", "done"}

\* an executor is blocked in the receive of: for edata := range edataCh
Receiving(w) == wpc[w] = "recv"

\* what the executor does after receiving execData j / finishing function i:
\* the next function of the same execData, or back to the receive
AfterRecvDrop(j) == "recv"
AfterRecv(j) == IF Len(eds[j].fs) = 0 THEN "recv" ELSE "call"
AfterFirstFunc(j, i) == "recv"
AfterFunc(j, i) == IF i < Len(eds[j].fs) THEN "call" ELSE "recv"

\* a handoff after which main offers the same execData again
HandoffAgain(w) ==
    /\ mpc = "send"
    /\ SendMore
    /\ w \in Executors
    /\ Receiving(w)
    /\ Len(claimed[next]) < 2
    /\ edata' = [edata EXCEPT
                    ![w] = IF AfterRecv(next) = "recv" THEN 0 ELSE next]
    /\ fidx' = [fidx EXCEPT ![w] = 1]
    /\ wpc' = [wpc EXCEPT ![w] = AfterRecv(next)]
    /\ claimed' = [claimed EXCEPT ![next] = Append(@, w)]
    /\ completed' = [completed EXCEPT
                        ![next] = IF Len(eds[next].fs) = 0 THEN @ + 1 ELSE @]
    /\ next' = IF Len(claimed[next]) = 0 THEN next ELSE next + 1
    /\ UNCHANGED <<inputVars, mpc, eds, wg, closed, stdout, history>>

\* a handoff that always goes to the first executor that is at its receive
HandoffToFirstIdle(w) ==
    /\ mpc = "send"
    /\ SendMore
    /\ w \in Executors
    /\ Receiving(w)
    /\ \A v \in 1..(w - 1) : ~Receiving(v)
    /\ edata' = [edata EXCEPT
                    ![w] = IF AfterRecv(next) = "recv" THEN 0 ELSE next]
    /\ fidx' = [fidx EXCEPT ![w] = 1]
    /\ wpc' = [wpc EXCEPT ![w] = AfterRecv(next)]
    /\ claimed' = [claimed EXCEPT ![next] = Append(@, w)]
    /\ completed' = [completed EXCEPT
                        ![next] = IF Len(eds[next].fs) = 0 THEN @ + 1 ELSE @]
    /\ next' = next + 1
    /\ UNCHANGED <<inputVars, mpc, eds, wg, closed, stdout, history>>

\* edCh <- ed meets a receive: the channel is unbuffered, so the send of
\* main and the receive of executor w are one step
Handoff(w) ==
    /\ mpc = "send"
    /\ SendMore
    /\ w \in Executors
    /\ Receiving(w)
    /\ edata' = [edata EXCEPT
                    ![w] = IF AfterRecv(next) = "recv" THEN 0 ELSE next]
    /\ fidx' = [fidx EXCEPT ![w] = 1]
    /\ wpc' = [wpc EXCEPT ![w] = AfterRecv(next)]
    /\ claimed' = [claimed EXCEPT ![next] = Append(@, w)]
    /\ completed' = [completed EXCEPT
                        ![next] = IF Len(eds[next].fs) = 0 THEN @ + 1 ELSE @]
    /\ next' = next + 1
    /\ UNCHANGED <<inputVars, mpc, eds, wg, closed, stdout, history>>

\* close(edCh) inside the send loop, after each send
CloseInLoop ==
    /\ mpc = "send"
    /\ next > 1
    /\ ~closed
    /\ closed' = TRUE
    /\ mpc' = IF SendMore THEN "send" ELSE "wait"
    /\ UNCHANGED <<inputVars, eds, wg, next, wpc, edata, fidx, stdout,
                   history, claimed, completed>>

\* close(edCh)
Close ==
    /\ mpc = "send"
    /\ ~SendMore
    /\ closed' = TRUE
    /\ mpc' = "wait"
    /\ UNCHANGED <<inputVars, eds, wg, next, wpc, edata, fidx, stdout,
                   history, claimed, completed>>

\* a wait that returns while one executor is still to call Done
WaitReturnsEarly == wg <= 1

\* wg.Wait() returns
WaitReturns == wg = 0

\* a wait that gives up: main returns whatever the counter is
WaitTimesOut ==
    /\ mpc = "wait"
    /\ mpc' = "exit"
    /\ UNCHANGED <<inputVars, eds, wg, next, closed, wpc, edata, fidx,
                   stdout, history, claimed, completed>>

Wait ==
    /\ mpc = "wait"
    /\ WaitReturns
    /\ mpc' = "exit"
    /\ UNCHANGED <<inputVars, eds, wg, next, closed, wpc, edata, fidx,
                   stdout, history, claimed, completed>>

\* ----------------------------------------------------------------- executor
\* a function that copies the program's output to stdout as it is spawned
InvokeStreaming(w) ==
    /\ Alive
    /\ w \in Executors
    /\ wpc[w] = "call"
    /\ history' = [history EXCEPT
                      ![edata[w]] = Append(@, Event("executing", w))]
    /\ stdout' = Append(stdout, Line("out", w))
    /\ wpc' = [wpc EXCEPT ![w] = "run"]
    /\ UNCHANGED <<inputVars, mainVars, edata, fidx, claimed, completed>>

\* err := f() is entered: fmt.Printf("executing %v\n", clargs.command), then
\* the executor sits in cmd.Run() while the program runs
Invoke(w) ==
    /\ Alive
    /\ w \in Executors
    /\ wpc[w] = "call"
    /\ history' = [history EXCEPT
                      ![edata[w]] = Append(@, Event("executing", w))]
    /\ wpc' = [wpc EXCEPT ![w] = "run"]
    /\ UNCHANGED <<inputVars, mainVars, edata, fidx, stdout, claimed,
                   completed>>

\* the function has returned kind ("out": nil after printing the captured
\* output, "error": the error executor prints) and the loop over edata.fs
\* moves on
Return(w, kind) ==
    /\ history' = [history EXCEPT ![edata[w]] = Append(@, Event(kind, w))]
    /\ stdout' = Append(stdout, Line(kind, w))
    /\ wpc' = [wpc EXCEPT ![w] = AfterFunc(edata[w], fidx[w])]
    /\ fidx' = [fidx EXCEPT ![w] = @ + 1]
    /\ edata' = [edata EXCEPT
                    ![w] = IF AfterFunc(edata[w], fidx[w]) = "recv"
                           THEN 0 ELSE @]
    /\ completed' = [completed EXCEPT
                        ![edata[w]] =
                            IF AfterFunc(edata[w], fidx[w]) = "recv"
                            THEN @ + 1 ELSE @]

\* an output that is held back until the first execData has been completed
EmitOutInGraphOrder(w) ==
    /\ Alive
    /\ w \in Executors
    /\ wpc[w] = "run"
    /\ edata[w] = 1 \/ completed[1] > 0
    /\ "ok" \in RunOutcomes(eds[edata[w]].fs[fidx[w]])
    /\ Return(w, "out")
    /\ UNCHANGED <<inputVars, mainVars, claimed>>

\* cmd.Run() returns nil: fmt.Println(out.String()); return nil
EmitOut(w) ==
    /\ Alive
    /\ w \in Executors
    /\ wpc[w] = "run"
    /\ "ok" \in RunOutcomes(eds[edata[w]].fs[fidx[w]])
    /\ Return(w, "out")
    /\ UNCHANGED <<inputVars, mainVars, claimed>>

\* an executor that prints the error and leaves the loop over edata.fs
ReportErrBreak(w) ==
    /\ Alive
    /\ w \in Executors
    /\ wpc[w] = "run"
    /\ "err" \in RunOutcomes(eds[edata[w]].fs[fidx[w]])
    /\ history' = [history EXCEPT
                      ![edata[w]] = Append(@, Event("error", w))]
    /\ stdout' = Append(stdout, Line("error", w))
    /\ wpc' = [wpc EXCEPT ![w] = "recv"]
    /\ fidx' = [fidx EXCEPT ![w] = @ + 1]
    /\ edata' = [edata EXCEPT ![w] = 0]
    /\ completed' = [completed EXCEPT ![edata[w]] = @ + 1]
    /\ UNCHANGED <<inputVars, mainVars, claimed>>

\* cmd.Run() returns an error: f returns it and executor does
\* fmt.Println(err)
ReportErr(w) ==
    /\ Alive
    /\ w \in Executors
    /\ wpc[w] = "run"
    /\ "err" \in RunOutcomes(eds[edata[w]].fs[fidx[w]])
    /\ Return(w, "error")
    /\ UNCHANGED <<inputVars, mainVars, claimed>>

\* an executor that gives up as soon as it finds nothing to receive
LoopEndWhenIdle(w) ==
    /\ Alive
    /\ w \in Executors
    /\ Receiving(w)
    /\ wg' = wg - 1
    /\ wpc' = [wpc EXCEPT ![w] = "done"]
    /\ UNCHANGED <<inputVars, mpc, eds, next, closed, edata, fidx, stdout,
                   history, claimed, completed>>

\* the range over the closed channel ends and the executor calls wg.Done()
LoopEnd(w) ==
    /\ Alive
    /\ w \in Executors
    /\ Receiving(w)
    /\ closed
    /\ wg' = wg - 1
    /\ wpc' = [wpc EXCEPT ![w] = "done"]
    /\ UNCHANGED <<inputVars, mpc, eds, next, closed, edata, fidx, stdout,
                   history, claimed, completed>>

Next ==
    \/ ReadFatal
    \/ ReadOk
    \/ DecodeFatal
    \/ DecodeOk
    \/ WgAdd
    \/ Spawn
    \/ SpawnEnd
    \/ \E w \in Executors : Handoff(w)
    \/ Close
    \/ Wait
    \/ \E w \in Executors : Invoke(w)
    \/ \E w \in Executors : EmitOut(w)
    \/ \E w \in Executors : ReportErr(w)
    \/ \E w \in Executors : LoopEnd(w)

Spec == Init /\ [][Next]_vars

\* The end-to-end scenario: two groups, [echo a] and [echo b, echo c], on a
\* pool of two executors.
Echo(t) == [name |-> t, cmd |-> "echo", args |-> <<t>>]
Scenario == << <<Echo("a")>>, <<Echo("b"), Echo("c")>> >>

ScenarioInit ==
    /\ cfg \in [readable : BOOLEAN, decodable : BOOLEAN,
                functions : {Scenario}]
    /\ workers = 2
    /\ mpc = "read"
    /\ eds = <<>>
    /\ wg = 0
    /\ next = 1
    /\ closed = FALSE
    /\ wpc = <<>>
    /\ edata = <<>>
    /\ fidx = <<>>
    /\ stdout = <<>>
    /\ history = <<>>
    /\ claimed = <<>>
    /\ completed = <<>>

ScenarioSpec == ScenarioInit /\ [][Next]_vars

\* The Go scheduler runs every runnable goroutine: main takes its next step
\* when it can, and so does every executor.
MainStep ==
    \/ ReadFatal
    \/ ReadOk
    \/ DecodeFatal
    \/ DecodeOk
    \/ WgAdd
    \/ Spawn
    \/ SpawnEnd
    \/ \E w \in Executors : Handoff(w)
    \/ Close
    \/ Wait

\* a step of executor w that does not wait for a spawned program
ExecutorStep(w) == Invoke(w) \/ LoopEnd(w)

\* the program spawned by executor w ends and its function returns
ProgramEnds(w) == EmitOut(w) \/ ReportErr(w)

Scheduling ==
    /\ WF_vars(MainStep)
    /\ \A w \in 1..MaxWorkers : WF_vars(ExecutorStep(w))

\* fair scheduling, and every spawned program ends
FairSpec ==
    /\ Spec
    /\ Scheduling
    /\ \A w \in 1..MaxWorkers : WF_vars(ProgramEnds(w))

\* fair scheduling, and every spawned program ends except those of the first
\* execData, which may run for ever
SlowFirstSpec ==
    /\ Spec
    /\ Scheduling
    /\ \A w \in 1..MaxWorkers :
          WF_vars(w \in Executors /\ edata[w] # 1 /\ ProgramEnds(w))

TypeOK ==
    /\ mpc \in {"read", "decode", "fatal", "add", "spawn", "send", "wait",
                "exit"}
    /\ \A w \in Executors :
          wpc[w] \in {"recv", "call", "run", "done"}

\* ------------------------------------------------------------------ helpers
Range(q) == { q[k] : k \in DOMAIN q }

\* all functions of execData j have been invoked and have returned
AllAttempted(j) == Len(history[j]) = 2 * Len(eds[j].fs)

\* execData that some executor received and whose fs loop has not ended
RunningJobs == { j \in Jobs : Len(claimed[j]) > 0 /\ completed[j] = 0 }

\* execData that executor w received and whose fs loop has not ended
HeldBy(w) == { j \in Jobs : w \in Range(claimed[j]) /\ completed[j] = 0 }

\* some descriptor of the configuration has no cmd key
MissingCmd ==
    \E r \in DOMAIN cfg.functions :
        \E k \in DOMAIN cfg.functions[r] :
            "cmd" \notin DOMAIN cfg.functions[r][k]

\* ------------------------------------------------------------------- claims

\* C1: every execData is received by exactly one executor and run exactly
\* once: never received twice, never completed twice, every line of its
\* history printed by the executor that received it, and when main returns
\* all M execData of the configuration have been received and completed.
C1_ExactlyOnce ==
    /\ \A j \in Jobs :
          /\ Len(claimed[j]) <= 1
          /\ completed[j] <= Len(claimed[j])
          /\ \A k \in DOMAIN history[j] :
                Len(claimed[j]) = 1 /\ history[j][k].w = claimed[j][1]
    /\ mpc = "exit" =>
          /\ Len(eds) = Len(cfg.functions)
          /\ Cardinality({ j \in Jobs : completed[j] = 1 })
                = Len(cfg.functions)
          /\ \A j \in Jobs : Len(claimed[j]) = 1 /\ AllAttempted(j)

C1_Witness ==
    /\ mpc = "exit"
    /\ Len(eds) = 2
    /\ workers = 2
    /\ claimed[1] # claimed[2]
    /\ Len(eds[1].fs) = 1
    /\ Len(eds[2].fs) = 1

C3_AtMostKRunning == Cardinality(RunningJobs) <= workers

\* more execData than executors: one running, one still to be sent
C3_Witness ==
    /\ workers = 1
    /\ Len(eds) = 2
    /\ Cardinality(RunningJobs) = 1
    /\ next = 2

\* C4: main returns only after every executor has called Done, and an
\* executor calls Done only when it holds no execData and every execData it
\* received has had all its functions attempted; so at exit every execData
\* that was handed over has had all its functions attempted.
C4_ExitAfterAllDone ==
    /\ \A w \in Executors :
          wpc[w] = "done" =>
              /\ edata[w] = 0
              /\ \A j \in Jobs : w \in Range(claimed[j]) => AllAttempted(j)
    /\ mpc = "exit" =>
          /\ Len(wpc) = workers
          /\ \A w \in Executors : wpc[w] = "done"
          /\ \A j \in Jobs :
                Len(claimed[j]) > 0 => AllAttempted(j) /\ completed[j] = 1

C4_Witness ==
    /\ mpc = "exit"
    /\ workers = 2
    /\ Len(eds) = 1
    /\ Len(eds[1].fs) = 2
    /\ Len(stdout) = 2

C6_CloseAfterAllPushed ==
    /\ closed =>
          /\ next = Len(eds) + 1
          /\ \A j \in Jobs : Len(claimed[j]) >= 1
    /\ \A w \in Executors :
          wpc[w] = "done" =>
              /\ closed
              /\ \A j \in Jobs : Len(claimed[j]) >= 1

C6_Witness ==
    /\ closed
    /\ Len(eds) = 2
    /\ \E w \in Executors : wpc[w] = "done"
    /\ \E w \in Executors : wpc[w] = "run"

\* C7: an executor holds at most one execData at a time, and it is at its
\* receive (or past its loop) only when every function of every execData it
\* received has been attempted.
C7_OneJobPerWorker ==
    \A w \in Executors :
        /\ Cardinality(HeldBy(w)) <= 1
        /\ edata[w] # 0 => HeldBy(w) = {edata[w]}
        /\ wpc[w] \in {"recv", "done"} =>
              /\ edata[w] = 0
              /\ \A j \in Jobs : w \in Range(claimed[j]) => AllAttempted(j)

\* one executor has finished an execData and is running the next while
\* another executor is idle
C7_Witness ==
    \E w \in Executors :
        /\ workers = 2
        /\ Len(eds) = 2
        /\ claimed[1] = <<w>>
        /\ claimed[2] = <<w>>
        /\ AllAttempted(1)
        /\ Len(eds[1].fs) = 1
        /\ edata[w] = 2
        /\ wpc[w] = "run"

\* C8: when the configuration cannot be read or cannot be decoded, main never
\* gets past processConfig: no executor is started, nothing is sent, no
\* function is invoked, no execData list exists, and main never returns
\* normally.
C8_FatalBeforeStart ==
    (~cfg.readable \/ ~cfg.decodable) =>
        /\ mpc \in {"read", "decode", "fatal"}
        /\ wpc = <<>>
        /\ wg = 0
        /\ next = 1
        /\ ~closed
        /\ eds = <<>>
        /\ history = <<>>
        /\ stdout = <<>>

C8_Witness ==
    /\ mpc = "fatal"
    /\ cfg.readable
    /\ ~cfg.decodable
    /\ Len(cfg.functions) = 2
    /\ Len(cfg.functions[1]) >= 1

\* C9: a configuration in which some descriptor has no cmd key makes the
\* process stop before any executor is started and before any function is
\* invoked, and processConfig never yields a function with an empty program
\* name.
C9_MissingCmdIsFatal ==
    /\ \A j \in Jobs :
          \A k \in DOMAIN eds[j].fs : eds[j].fs[k].command # ""
    /\ MissingCmd =>
          /\ wpc = <<>>
          /\ stdout = <<>>
          /\ \A j \in Jobs : history[j] = <<>>
          /\ mpc # "exit"

\* C10: main sends the execData one at a time in order over an unbuffered
\* channel: the execData received so far are exactly those before next, each
\* send completes in the step in which an executor that was at its receive
\* takes that same execData, and so next does not move while every executor
\* is busy.
C10_HandoffState ==
    /\ next \in 1..(Len(eds) + 1)
    /\ \A j \in Jobs : (Len(claimed[j]) > 0) <=> (j < next)

C10_HandoffStep ==
    next' # next =>
        /\ next' = next + 1
        /\ \E w \in Executors :
              /\ wpc[w] = "recv"
              /\ edata[w] = 0
              /\ claimed'[next] = Append(claimed[next], w)
              /\ \/ edata'[w] = next
                 \/ Len(eds[next].fs) = 0
              /\ \A v \in Executors \ {w} :
                    wpc'[v] = wpc[v] /\ edata'[v] = edata[v]

C10_SynchronousHandoff == [] C10_HandoffState /\ [][C10_HandoffStep]_vars

\* the single executor was busy when the second execData was due, and has
\* received it after finishing the first
C10_Witness ==
    /\ workers = 1
    /\ Len(eds) = 2
    /\ Len(eds[1].fs) >= 1
    /\ completed[1] = 1
    /\ claimed[2] = <<1>>
    /\ next = 3

\* C11: execData do not block each other.  Whenever main is at its send with
\* an execData left and an executor is at its receive, the handoff to that
\* executor is enabled, whatever the other executors are running; and under
\* fair scheduling every execData so offered is eventually received and
\* (when it is not the first one) completed, even if the programs of the
\* first execData never end: from some point on no execData is on offer to a
\* waiting executor and every execData received after the first is completed.
C11_HandoffEnabled ==
    \A w \in 1..MaxWorkers :
        (mpc = "send" /\ next <= Len(eds) /\ w \in Executors
            /\ wpc[w] = "recv")
        => ENABLED Handoff(w)

C11_Offered(j) ==
    /\ mpc = "send"
    /\ next = j
    /\ \E w \in Executors : wpc[w] = "recv"

C11_Settled ==
    \A j \in Jobs :
        /\ ~C11_Offered(j)
        /\ (j >= 2 /\ j < next) => completed[j] = 1

C11_NoBlocking == [] C11_HandoffEnabled /\ <>[] C11_Settled

\* the second execData has been completed while a program of the first is
\* still running
C11_Witness ==
    /\ Len(eds) = 2
    /\ completed[2] = 1
    /\ Len(eds[2].fs) = 1
    /\ completed[1] = 0
    /\ \E v \in Executors : edata[v] = 1 /\ wpc[v] = "run"

\* what each line of stdout shows: the text echo was given, or an error
Texts ==
    [k \in DOMAIN stdout |->
        IF stdout[k].ev = "out"
        THEN eds[stdout[k].job].fs[stdout[k].f].args[1]
        ELSE "error"]

\* C12: in the scenario [[echo a], [echo b, echo c]] with two executors,
\* every run that ends has printed one line per command, each text at most
\* once and c only after the line of b; when all three echo succeed the output is one
\* of a-b-c, b-a-c, b-c-a; and a is unconstrained against b and c: the output
\* of a running command is never held back by what the other group has or
\* has not printed.
C12_EndToEnd ==
    /\ \A k, m \in DOMAIN stdout :
          /\ (k # m /\ Texts[k] # "error") => Texts[k] # Texts[m]
          /\ (Texts[k] = "c" /\ Texts[m] = "b") => m < k
    /\ \A k \in DOMAIN stdout :
          Texts[k] = "c" =>
              \E m \in 1..(k - 1) : stdout[m].job = 2 /\ stdout[m].f = 1
    /\ mpc = "exit" =>
          /\ Len(stdout) = 3
          /\ (\A k \in DOMAIN stdout : stdout[k].ev = "out") =>
                Texts \in { <<"a", "b", "c">>, <<"b", "a", "c">>,
                            <<"b", "c", "a">> }
    /\ \A w \in Executors : (Alive /\ wpc[w] = "run") => ENABLED EmitOut(w)

\* a printed between b and c
C12_Witness == mpc = "exit" /\ Texts = <<"b", "a", "c">>

\* the executors that have called wg.Done()
DoneExecutors == { w \in Executors : wpc[w] = "done" }

\* C13: every executor calls Done exactly once, only with the channel closed
\* and holding no unfinished execData; an executor that has called Done never
\* does anything again, each Done lowers the counter by one, and when main
\* returns the number of Done calls is the pool size.
C13_DoneStep ==
    /\ \A w \in Executors :
          /\ wpc[w] = "done" => wpc'[w] = "done"
          /\ (wpc[w] # "done" /\ wpc'[w] = "done") =>
                /\ closed
                /\ wpc[w] = "recv"
                /\ edata[w] = 0
                /\ HeldBy(w) = {}
                /\ wg' = wg - 1
                /\ \A v \in Executors \ {w} : wpc'[v] = wpc[v]
    /\ wg' < wg => \E w \in Executors : wpc[w] # "done" /\ wpc'[w] = "done"

C13_DoneCount ==
    /\ DoneExecutors # {} => closed
    /\ mpc \in {"spawn", "send", "wait", "exit"} =>
          Cardinality(DoneExecutors) = workers - wg
    /\ mpc = "exit" => Cardinality(DoneExecutors) = workers

C13_DoneOnce == [] C13_DoneCount /\ [][C13_DoneStep]_vars

\* both executors have called Done, one of them without ever receiving
C13_Witness ==
    /\ workers = 2
    /\ DoneExecutors = {1, 2}
    /\ Len(eds) = 2
    /\ claimed[1] = claimed[2]
    /\ Len(stdout) = 2

\* what function f of execData j has printed, in order
EventsOf(j, f) ==
    LET IsF(e) == e.f = f IN SelectSeq(history[j], IsF)

\* the positions of stdout holding the line kind of function f of execData j
LinesOf(kind, j, f) ==
    { k \in DOMAIN stdout : stdout[k] = [ev |-> kind, job |-> j, f |-> f] }

\* the program of function f of execData j is running
Running(j, f) ==
    \E w \in Executors : wpc[w] = "run" /\ edata[w] = j /\ fidx[w] = f

\* C14: a function first prints the notice naming its program, then runs the
\* program, then has exactly one outcome: an error and no captured output,
\* or the captured output, printed once, and no error.  While the program is
\* running nothing of it has been printed but the notice.
C14_ActionOutcome ==
    \A j \in Jobs :
        \A f \in DOMAIN eds[j].fs :
            LET evs == EventsOf(j, f) IN
            /\ Len(evs) <= 2
            /\ Len(evs) >= 1 =>
                  /\ evs[1].ev = "executing"
                  /\ evs[1].cmd = eds[j].fs[f].command
            /\ Len(evs) = 2 => evs[2].ev \in {"out", "error"}
            /\ Cardinality(LinesOf("out", j, f))
                  = IF Len(evs) = 2 /\ evs[2].ev = "out" THEN 1 ELSE 0
            /\ Cardinality(LinesOf("error", j, f))
                  = IF Len(evs) = 2 /\ evs[2].ev = "error" THEN 1 ELSE 0
            /\ Running(j, f) <=> Len(evs) = 1
            /\ Running(j, f) =>
                  LinesOf("out", j, f) = {} /\ LinesOf("error", j, f) = {}
            /\ eds[j].fs[f].command = "" => LinesOf("out", j, f) = {}

\* the first function has printed its output and the second is running
C14_Witness ==
    \E j \in Jobs :
        /\ Len(eds[j].fs) = 2
        /\ Running(j, 2)
        /\ LinesOf("out", j, 1) # {}
        /\ LinesOf("error", j, 1) = {}

\* C15: across execData nothing is fixed.  When several executors are at
\* their receive, the next execData can go to any of them; and when the
\* programs of two execData are running, either can end first, so a later
\* execData can be completed before or after an earlier one.
C15_NoOrderGuarantee ==
    \A w, v \in Executors :
        w # v =>
            /\ (mpc = "send" /\ next <= Len(eds)
                    /\ wpc[w] = "recv" /\ wpc[v] = "recv")
                => (ENABLED Handoff(w) /\ ENABLED Handoff(v))
            /\ (Alive /\ wpc[w] = "run" /\ wpc[v] = "run")
                => (ENABLED ProgramEnds(w) /\ ENABLED ProgramEnds(v))

\* the second execData went to the first executor and was completed before
\* the first execData, which went to the second executor
C15_Witness ==
    /\ mpc = "exit"
    /\ Len(eds) = 2
    /\ claimed[1] = <<2>>
    /\ claimed[2] = <<1>>
    /\ Len(stdout) = 2
    /\ stdout[1].job = 2
    /\ stdout[2].job = 1

\* the state of an execData, from who received it (cl) and how often its
\* loop ended (co)
JobStateOf(cl, co, j) ==
    IF Len(cl[j]) = 0 THEN "Pending"
    ELSE IF co[j] = 0 THEN "Running"
    ELSE "Completed"

JobState(j) == JobStateOf(claimed, completed, j)

\* C16: an execData goes Pending -> Running -> Completed and nothing else.
\* It leaves Pending only by being received by an executor that was at its
\* receive; it becomes Completed only when its last function has been
\* attempted (at once when it has no function); while Running it is held by
\* the executor that received it, which is calling or running one of its
\* functions in a live process; it never goes back, and Completed is final.
C16_Held ==
    \A j \in Jobs :
        /\ JobState(j) = "Pending" => history[j] = <<>> /\ j >= next
        /\ JobState(j) = "Running" =>
              /\ Alive
              /\ j < next
              /\ ~AllAttempted(j)
              /\ \E w \in Executors :
                    /\ claimed[j] = <<w>>
                    /\ edata[w] = j
                    /\ wpc[w] \in {"call", "run"}
        /\ JobState(j) = "Completed" => AllAttempted(j) /\ j < next

C16_Step ==
    \A j \in Jobs :
        LET before == JobState(j)
            after == JobStateOf(claimed', completed', j)
        IN
        /\ before = "Pending" /\ after # "Pending" =>
              /\ next = j /\ next' = j + 1
              /\ \E w \in Executors :
                    wpc[w] = "recv" /\ claimed'[j] = <<w>>
              /\ after = "Completed" <=> Len(eds[j].fs) = 0
        /\ before = "Running" =>
              /\ after \in {"Running", "Completed"}
              /\ claimed'[j] = claimed[j]
              /\ after = "Completed" =>
                    Len(history'[j]) = 2 * Len(eds[j].fs)
        /\ before = "Completed" =>
              /\ after = "Completed"
              /\ claimed'[j] = claimed[j]
              /\ history'[j] = history[j]
              /\ completed'[j] = completed[j]

Terminated ==
    /\ mpc = "exit"
    /\ wg = 0
    /\ closed
    /\ \A j \in Jobs : JobState(j) = "Completed"
    /\ Len(wpc) = workers
    /\ \A w \in Executors : wpc[w] = "done"

\* C17: the run neither deadlocks nor runs forever. While the process is
\* alive some step is possible, and when every started program ends and
\* scheduling is fair, a run whose configuration was loaded reaches the
\* state where every execData is completed, every executor has called
\* wg.Done and main has returned from wg.Wait; this for every number of
\* executors and every list of execData, the empty list, execData without
\* functions and fewer execData than executors included.
C17_Terminates ==
    /\ [](Alive => ENABLED Next)
    /\ <>(IF cfg.readable /\ cfg.decodable THEN Terminated
                                             ELSE mpc = "fatal")

\* main returned with two executors and one execData of two functions: one
\* executor never received anything
C17_Witness ==
    /\ Terminated
    /\ workers = 2
    /\ Len(eds) = 1
    /\ Len(eds[1].fs) = 2
    /\ \E w \in Executors : \A j \in Jobs : claimed[j] # <<w>>

\* C18: the channel and the wait group are never misused. Only main sends
\* and only main closes, in its send phase and its close statement; after
\* the close nothing is sent and the channel stays closed; the counter is
\* raised once, to the number of executors, before any executor exists,
\* then equals the number of executors that have not called Done, and is
\* never negative.
C18_ProtocolState ==
    /\ wg \in 0..workers
    /\ mpc \in {"read", "decode", "fatal", "add"} =>
          wg = 0 /\ wpc = <<>> /\ ~closed /\ next = 1
    /\ mpc \in {"spawn", "send", "wait", "exit"} =>
          wg = workers - Cardinality(DoneExecutors)
    /\ closed <=> mpc \in {"wait", "exit"}
    /\ closed => next = Len(eds) + 1

C18_ProtocolStep ==
    /\ closed => closed' /\ next' = next /\ claimed' = claimed
    /\ closed' # closed =>
          mpc = "send" /\ mpc' = "wait" /\ wpc' = wpc /\ wg' = wg
    /\ next' # next =>
          /\ mpc = "send" /\ mpc' = "send"
          /\ ~closed /\ ~closed'
          /\ next' = next + 1
          /\ wg' = wg
    /\ wg' > wg => mpc = "add" /\ wpc = <<>> /\ wg = 0 /\ wg' = workers
    /\ wg' < wg => wg > 0 /\ wg' = wg - 1 /\ mpc' = mpc
    /\ Len(wpc') > Len(wpc) => mpc = "spawn" /\ wg' = wg

C18_NoPanic == [] C18_ProtocolState /\ [][C18_ProtocolStep]_vars

\* main waits on the closed channel's executors: one has called Done, the
\* other still runs a program of the second execData
C18_Witness ==
    /\ mpc = "wait"
    /\ closed
    /\ workers = 2
    /\ wg = 1
    /\ \E w \in Executors : wpc[w] = "run" /\ edata[w] = 2

\* the executors whose program has been started and has not ended
Stuck == { w \in Executors : wpc[w] = "run" }

\* C19: nothing but the end of its program takes an executor out of
\* cmd.Run, and nothing goes on without it. While a program runs main has
\* not returned and its wait cannot return, whatever else is completed;
\* and while every executor runs a program and an execData is still to be
\* sent, main can neither send nor close, and the execData not yet sent have
\* printed nothing. A step that leaves all those programs running changes
\* nothing of main.
C19_StuckState ==
    /\ Stuck # {} => mpc \in {"send", "wait"} /\ wg > 0 /\ ~ENABLED Wait
    /\ (Cardinality(Stuck) = workers /\ SendMore) =>
          /\ mpc = "send"
          /\ ~closed
          /\ ~ENABLED Close
          /\ \A w \in Executors : ~ENABLED Handoff(w)
          /\ \A j \in Jobs :
                j >= next => JobState(j) = "Pending" /\ history[j] = <<>>

C19_StuckStep ==
    /\ \A w \in Stuck :
          wpc'[w] # "run" =>
              /\ Len(history'[edata[w]]) = Len(history[edata[w]]) + 1
              /\ history'[edata[w]][Len(history'[edata[w]])].ev
                    \in {"out", "error"}
    /\ (Cardinality(Stuck) = workers /\ SendMore
            /\ \A w \in Stuck : wpc'[w] = "run") =>
          UNCHANGED <<mainVars, claimed, completed, history, stdout>>

C19_NoTimeout == [] C19_StuckState /\ [][C19_StuckStep]_vars

\* the program of the first execData is running while the second execData
\* is completed, the other executor has called Done and main waits
C19_Witness ==
    /\ mpc = "wait"
    /\ workers = 2
    /\ Len(eds) = 2
    /\ JobState(2) = "Completed"
    /\ Len(history[2]) = 2
    /\ \E w, v \in Executors :
          wpc[w] = "run" /\ edata[w] = 1 /\ wpc[v] = "done"

\* the functions of the first j blocks of the configuration, block after
\* block, each block in declared order
RECURSIVE GraphOrder(_)
GraphOrder(j) ==
    IF j = 0 THEN <<>>
    ELSE GraphOrder(j - 1) \o
         [f \in 1..Len(cfg.functions[j]) |->
             [job |-> j, f |-> f,
              cmd |-> functionMeta(cfg.functions[j][f]).Cmd]]

\* how many times a function of the first j execData has been called
RECURSIVE Executings(_)
Executings(j) ==
    IF j = 0 THEN 0
    ELSE Executings(j - 1)
         + Cardinality({ k \in DOMAIN history[j] :
                            history[j][k].ev = "executing" })

\* the function calls of a single executor in the order they were made:
\* those that have ended, in the order of their lines, then the one whose
\* program is running
Invocations ==
    LET Called(j, f) == [job |-> j, f |-> f, cmd |-> EventsOf(j, f)[1].cmd]
    IN [k \in DOMAIN stdout |-> Called(stdout[k].job, stdout[k].f)]
       \o (IF 1 \in Executors /\ wpc[1] = "run"
           THEN <<Called(edata[1], fidx[1])>> ELSE <<>>)

\* C20: with one executor the run is sequential and the same every time. The
\* calls made so far are all in Invocations, one at a time, and they are the
\* first calls of the configuration's blocks read in order, with the
\* declared programs; when main returns they are all of them. The order of
\* calls is therefore a function of the configuration alone.
C20_Sequential ==
    workers = 1 =>
        LET inv == Invocations
            g == GraphOrder(Len(cfg.functions))
        IN /\ Len(wpc) <= 1
           /\ Executings(Len(history)) = Len(inv)
           /\ Len(inv) <= Len(g)
           /\ inv = SubSeq(g, 1, Len(inv))
           /\ mpc = "exit" => inv = g

\* one executor has run two execData of one function each, with different
\* programs, and main has returned
C20_Witness ==
    /\ workers = 1
    /\ mpc = "exit"
    /\ Len(Invocations) = 2
    /\ Invocations[1].job = 1
    /\ Invocations[2].job = 2
    /\ Invocations[1].cmd # Invocations[2].cmd
====
